---- MODULE Spec2Model ----
(***************************************************************************)
(* The batch call scheduler of the medication reminder (the schedule-      *)
(* batches edge function) over the medications table it shares with the    *)
(* mobile app's medications repository.                                    *)
(*                                                                         *)
(* Timestamps are milliseconds (Date.getTime()); the zero of the clock is  *)
(* a midnight of the Asia/Karachi reference timezone.  A medication's time *)
(* column ("HH:MM", fixed width, compared lexically) is the minute of the  *)
(* day it denotes.                                                         *)
(***************************************************************************)
EXTENDS Integers, Sequences, FiniteSets, TLC

\* ------------------------------------------------------------ constants
ANCHOR_WINDOW_MINUTES == 1
SWEEP_WINDOW_MINUTES == 30
SNOOZE_COOLDOWN_MINUTES == 15
MAX_RETRY_COUNT == 2

MinuteMs == 60 * 1000
DayMinutes == 24 * 60

\* --------------------------------------------------------------- bounds
\* Medication ids the store can hold (initial rows plus inserted ones).
MaxMeds == 3
\* Minutes the clock advances under the cron schedule (Spec): from 08:00 to the
\* scheduled minute of the latest row, 08:20.
MaxTicks == 20
\* Minutes the clock advances under SpecDay: a day and the start of the next one.
DayTicks == 1465
\* Failures of collaborators (store, identity, provider) injected per behaviour.
MaxFaults == 2
\* Delays per behaviour (an answer that is slow within its minute, a minute
\* without an invocation); they count as failures.
MaxDelays == 1
\* App-side operations (take/untake, insert, delete) per behaviour.
MaxExt == 1
\* Operations from outside (the app, a confirmation, time that passes during an
\* invocation) per behaviour under overlapping invocations (SpecOverlap).
OverlapExt == 1
\* Minutes that end while invocations overlap (SpecOverlap).
OverlapTicks == 1
\* Longest list of medication names the call function is asked to speak (SpecSpoken).
MaxNames == 4
\* Rows in the table when the first run starts.
InitMeds == 2

MedIds == 1 .. MaxMeds
Users == {"u1", "u2"}
Runs == {"r1", "r2"}

\* The first run of a behaviour starts at 08:00.
StartMinute == 8 * 60
\* Scheduled times of the rows, in minutes relative to the start minute.
TimeOffsets == {0 - 5, 0, 20}

NULL == <<>>

VARIABLES
    clock,      \* wall clock, ms
    ticks,      \* minutes elapsed since the start
    ran,        \* the cron invocation of the current minute has been made
    store,      \* the medications table: id -> row
    run,        \* per scheduler invocation: position and locals
    disp,       \* per invocation and user: the dispatch promise's position and locals
    calls,      \* history: per id, the instants at which the request to the Call
                \* Provider was sent with it in the batch
    missedAt,   \* history: per id, when a dispatch first ended without a call and
                \* left the row pending and unstamped
    faults,     \* failures and delays injected so far
    ext         \* app-side operations and call confirmations so far

vars == <<clock, ticks, ran, store, run, disp, calls, missedAt, faults, ext>>

\* ------------------------------------------------------------- helpers
Live(m) == store[m].st = "live"
LiveIds == {m \in MedIds : Live(m)}

\* A wall clock that counts minutes since the first midnight and never wraps.
HHMMNoWrap(t) == t \div MinuteMs

\* Date.toLocaleTimeString('en-GB', {timeZone, hour, minute, hour12: false})
HHMM(t) == (t \div MinuteMs) % DayMinutes

TimeOfDay(off) == (StartMinute + off + DayMinutes) % DayMinutes

AbsentRow == [st |-> "absent", user_id |-> "u1", time |-> 0, is_taken |-> FALSE,
              last_called_at |-> NULL, retry_count |-> 0]

NewRow(u, t) == [st |-> "live", user_id |-> u, time |-> t, is_taken |-> FALSE,
                 last_called_at |-> NULL, retry_count |-> 0]

Range(s) == {s[i] : i \in 1 .. Len(s)}

\* .order('time', {ascending: true}): a row of an earlier time comes first.
Before(a, b) == store[a].time < store[b].time

\* The results a query ordered by time can return for the rows S: every order of
\* S in which no row comes after a row of a later time.  The order of rows of
\* equal time is the store's choice.
OrderByTime(S) ==
    {s \in [1 .. Cardinality(S) -> S] :
        /\ Range(s) = S
        /\ \A i \in 1 .. Len(s) : \A j \in 1 .. Len(s) :
              i < j => ~Before(s[j], s[i])}

\* The n smallest ids of S, ascending: the ids the table gives to inserted rows.
RECURSIVE OrderByFree(_, _)
OrderByFree(S, n) ==
    IF n = 0 \/ S = {} THEN <<>>
    ELSE LET first == CHOOSE a \in S : \A b \in S : a <= b
         IN <<first>> \o OrderByFree(S \ {first}, n - 1)

\* ------------------------------------------------ findAnchorMedications
\* The cooldown threshold both functions derive from the instant handed to them.
CooldownThreshold(t) == t - SNOOZE_COOLDOWN_MINUTES * MinuteMs

\* A first-call query without its retry_count condition.
IsNewMedAnyCount(row, nowTime) ==
    /\ row.time = nowTime
    /\ row.is_taken = FALSE

\* CONDITION 1: .eq('time', nowTime).eq('is_taken', false).eq('retry_count', 0)
IsNewMed(row, nowTime) ==
    /\ row.time = nowTime
    /\ row.is_taken = FALSE
    /\ row.retry_count = 0

\* A retry-anchor query whose cooldown comparison is the wrong way round.
IsRetryAnchorInCooldown(row, cooldown) ==
    /\ row.is_taken = FALSE
    /\ row.last_called_at # NULL
    /\ row.last_called_at[1] > cooldown
    /\ row.retry_count < MAX_RETRY_COUNT

\* CONDITION 2: .eq('is_taken', false).not('last_called_at', 'is', null)
\*              .lt('last_called_at', cooldownISO).lt('retry_count', MAX_RETRY_COUNT)
IsRetryAnchor(row, cooldown) ==
    /\ row.is_taken = FALSE
    /\ row.last_called_at # NULL
    /\ row.last_called_at[1] < cooldown
    /\ row.retry_count < MAX_RETRY_COUNT

NewMeds(now) == {m \in LiveIds : IsNewMed(store[m], HHMM(now))}

RetryAnchors(now) == {m \in LiveIds : IsRetryAnchor(store[m], CooldownThreshold(now))}

\* allAnchorMeds = [...newMeds, ...retryMeds]: the result of CONDITION 1, read
\* earlier, and the result of CONDITION 2.
AllAnchorMeds(newMeds, now) == newMeds \cup RetryAnchors(now)

AnchorUserIds(allAnchorMeds) == {store[m].user_id : m \in allAnchorMeds}

\* ------------------------------------------------- sweepUserMedications
CrossesMidnight(nowTime, windowEndTime) == windowEndTime < nowTime

\* A future-meds query without its is_taken filter.
IsFutureMedTakenToo(row, nowTime, windowEndTime) ==
    /\ row.retry_count < MAX_RETRY_COUNT
    /\ IF CrossesMidnight(nowTime, windowEndTime)
       THEN row.time >= nowTime \/ row.time <= windowEndTime
       ELSE row.time >= nowTime /\ row.time <= windowEndTime

\* The naive range predicate for a window that crosses midnight.
IsFutureMedRange(row, nowTime, windowEndTime) ==
    /\ row.is_taken = FALSE
    /\ row.retry_count < MAX_RETRY_COUNT
    /\ row.time >= nowTime /\ row.time <= windowEndTime

\* QUERY 1, either branch: is_taken = false, retry_count < MAX_RETRY_COUNT and the
\* time in the window (a disjunction when the window crosses midnight).
IsFutureMed(row, nowTime, windowEndTime) ==
    /\ row.is_taken = FALSE
    /\ row.retry_count < MAX_RETRY_COUNT
    /\ IF CrossesMidnight(nowTime, windowEndTime)
       THEN row.time >= nowTime \/ row.time <= windowEndTime
       ELSE row.time >= nowTime /\ row.time <= windowEndTime

\* QUERY 2: past meds with expired cooldown.
IsRetryMed(row, nowTime, cooldown) ==
    /\ row.is_taken = FALSE
    /\ row.last_called_at # NULL
    /\ row.last_called_at[1] < cooldown
    /\ row.time < nowTime
    /\ row.retry_count < MAX_RETRY_COUNT

FutureMeds(sweepStart, sweepEnd) ==
    {m \in LiveIds : IsFutureMed(store[m], HHMM(sweepStart), HHMM(sweepEnd))}

RetryMeds(sweepStart) ==
    {m \in LiveIds : IsRetryMed(store[m], HHMM(sweepStart), CooldownThreshold(sweepStart))}

\* Combine and deduplicate: the future meds first, then the retry meds not seen yet.
AllSweepMeds(futureMeds, retryMeds) ==
    futureMeds \o SelectSeq(retryMeds, LAMBDA m : m \notin Range(futureMeds))

\* userIds: the anchor users that have a row in the combined list, in the order
\* in which the list first names them (a Set keeps insertion order).
UserIds(anchorUserIds, all) ==
    LET first(i) == \A j \in 1 .. (i - 1) : store[all[j]].user_id # store[all[i]].user_id
        kept     == SelectSeq([i \in 1 .. Len(all) |-> i],
                              LAMBDA i : store[all[i]].user_id \in anchorUserIds /\ first(i))
    IN [k \in 1 .. Len(kept) |-> store[all[kept[k]]].user_id]

\* A grouping that keeps every user the sweep queries returned.
UserBatchesAllUsers(anchorUserIds, all) ==
    [u \in Users |-> SelectSeq(all, LAMBDA m : store[m].user_id = u)]

\* Filter to the anchor users and group by user_id, in the order of the combined list.
UserBatches(anchorUserIds, all) ==
    [u \in Users |->
        IF u \in anchorUserIds
        THEN SelectSeq(all, LAMBDA m : store[m].user_id = u)
        ELSE <<>>]

BatchUsers(batches) == {u \in Users : batches[u] # <<>>}

\* ------------------------------------------------------------ run state
\* An early return that reports a failure.
EmptyReportFailed == [success |-> FALSE, batches_triggered |-> 0, total_meds |-> 0,
                      errors |-> {}, details |-> {}]

\* The report of the early returns: success with nothing triggered.
EmptyReport == [success |-> TRUE, batches_triggered |-> 0, total_meds |-> 0,
                errors |-> {}, details |-> {}]

\* No invocation has returned yet.
NoResult == <<>>

NoBatches == [u \in Users |-> <<>>]

IdleRun(result) == [pc |-> "idle", now |-> 0, newMeds |-> {}, anchorMeds |-> {},
                    anchorUserIds |-> {}, futureMeds |-> <<>>,
                    userBatches |-> NoBatches, userIds |-> <<>>, result |-> result]

NoDisp == [pc |-> "none", profile |-> "none", names |-> <<>>, spoken |-> <<>>,
           fetched |-> {}, missing |-> {},
           oldRetryCount |-> [m \in MedIds |-> 0],
           pending |-> {}, failures |-> {}, now |-> 0,
           updateSuccess |-> "none", status |-> "none", called |-> FALSE]

NoDisps == [u \in Users |-> NoDisp]

\* -------------------------------------------- processScheduledMedications
\* The request arrives: now = new Date(), the windows are derived from it, and
\* findAnchorMedications sends its first query, CONDITION 1.
RunStart(r) ==
    /\ run[r].pc = "idle"
    /\ run' = [run EXCEPT ![r] = [IdleRun(NoResult) EXCEPT !.pc = "new", !.now = clock]]
    /\ ran' = TRUE
    /\ UNCHANGED <<clock, ticks, store, disp, calls, missedAt, faults, ext>>

\* CONDITION 1 is answered, for the nowTime of the instant read when the request
\* arrived and from the table as it is when the query runs.  A failed query
\* makes findAnchorMedications return null, which ends the invocation with the
\* all-zero report; otherwise CONDITION 2 is sent.
AnchorNew(r, F) ==
    /\ run[r].pc = "new"
    /\ \/ /\ faults < F
          /\ faults' = faults + 1
          /\ run' = [run EXCEPT ![r] = IdleRun(<<EmptyReport>>)]
       \/ /\ UNCHANGED faults
          /\ run' = [run EXCEPT ![r].pc = "anchor",
                                 ![r].newMeds = NewMeds(run[r].now)]
    /\ UNCHANGED <<clock, ticks, ran, store, disp, calls, missedAt, ext>>

\* The second query of findAnchorMedications, CONDITION 2, and what follows it:
\* a failed query returns null, no anchor at all ends the invocation with the
\* all-zero report, otherwise the anchor users are extracted from the rows the
\* two queries returned (the two queries awaited in between only feed the log).
AnchorRetry(r, F) ==
    /\ run[r].pc = "anchor"
    /\ \/ /\ faults < F
          /\ faults' = faults + 1
          /\ run' = [run EXCEPT ![r] = IdleRun(<<EmptyReport>>)]
       \/ /\ UNCHANGED faults
          /\ LET allAnchorMeds == AllAnchorMeds(run[r].newMeds, run[r].now)
             IN run' = [run EXCEPT ![r] =
                    IF allAnchorMeds = {}
                    THEN IdleRun(<<EmptyReport>>)
                    ELSE [@ EXCEPT !.pc = "sweep",
                                   !.anchorMeds = allAnchorMeds,
                                   !.anchorUserIds = AnchorUserIds(allAnchorMeds)]]
    /\ UNCHANGED <<clock, ticks, ran, store, disp, calls, missedAt, ext>>

\* The instants sweepUserMedications is called with: anchorStart and sweepEnd.
SweepStart(r) == run[r].now - ANCHOR_WINDOW_MINUTES * MinuteMs

SweepEnd(r) == run[r].now + SWEEP_WINDOW_MINUTES * MinuteMs

\* STEP 2, sweepUserMedications up to QUERY 1, the future meds; a failed query
\* is logged and leaves futureMeds empty.
SweepFuture(r, F) ==
    /\ run[r].pc = "sweep"
    /\ \/ /\ faults < F
          /\ faults' = faults + 1
          /\ run' = [run EXCEPT ![r].pc = "retry", ![r].futureMeds = <<>>]
       \/ /\ UNCHANGED faults
          /\ \E futureMeds \in OrderByTime(FutureMeds(SweepStart(r), SweepEnd(r))) :
                run' = [run EXCEPT ![r].pc = "retry", ![r].futureMeds = futureMeds]
    /\ UNCHANGED <<clock, ticks, ran, store, disp, calls, missedAt, ext>>

\* QUERY 2 of sweepUserMedications, the retry meds (a failed query leaves them
\* empty), then the combination and the grouping.  No batch ends the invocation
\* with the all-zero report, otherwise STEP 3 asks for the profile of the first
\* user.
Sweep(r, F) ==
    /\ run[r].pc = "retry"
    /\ \E ok \in BOOLEAN :
        \E retryMeds \in IF ok THEN OrderByTime(RetryMeds(SweepStart(r))) ELSE {<<>>} :
            LET all     == AllSweepMeds(run[r].futureMeds, retryMeds)
                batches == UserBatches(run[r].anchorUserIds, all)
            IN /\ ok \/ faults < F
               /\ faults' = IF ok THEN faults ELSE faults + 1
               /\ IF BatchUsers(batches) = {}
                  THEN /\ run' = [run EXCEPT ![r] = IdleRun(<<EmptyReport>>)]
                       /\ UNCHANGED disp
                  ELSE /\ run' = [run EXCEPT ![r].pc = "profiles", ![r].newMeds = {},
                                              ![r].anchorMeds = {},
                                              ![r].futureMeds = <<>>,
                                              ![r].userBatches = batches,
                                              ![r].userIds =
                                                  UserIds(run[r].anchorUserIds, all)]
                       /\ disp' = [disp EXCEPT ![r] =
                            [u \in Users |-> IF batches[u] # <<>>
                                             THEN [NoDisp EXCEPT !.pc = "start"]
                                             ELSE NoDisp]]
    /\ UNCHANGED <<clock, ticks, ran, store, calls, missedAt, ext>>

\* The ids handed to updateMedicationStats: medications.map(m => m.id).
MedicationIds(r, u) == Range(run[r].userBatches[u])

\* A settled dispatch.
Settled(d, status) == [d EXCEPT !.pc = "done", !.status = status]

\* A dispatch that calls whatever the commit returned.
CircuitBreakerOff(updateSuccess) == FALSE

\* CIRCUIT BREAKER: if (!updateSuccess) the dispatch returns status 'error'.
CircuitBreaker(updateSuccess) == ~updateSuccess

\* The dispatch once updateMedicationStats has returned updateSuccess.
AfterUpdate(d, updateSuccess) ==
    LET d1 == [d EXCEPT !.updateSuccess = IF updateSuccess THEN "true" ELSE "false"]
    IN IF CircuitBreaker(updateSuccess)
       THEN Settled(d1, "error")
       ELSE [d1 EXCEPT !.pc = "call"]

\* A dispatch that goes on to the call without a profile.
NoProfileIgnored(d) == [d EXCEPT !.profile = "missing", !.pc = "call"]

\* userProfiles.get(userId) is undefined (no user, or no phone): status 'skipped'.
NoProfile(d) == Settled([d EXCEPT !.profile = "missing"], "skipped")

\* History: dispatch d of batch ids has ended without a call; the rows of the
\* batch that are pending and were not stamped by it are noted, once each.
RecordMiss(d, ids) ==
    [m \in MedIds |->
        IF /\ d.pc = "done" /\ ~d.called
           /\ m \in ids \cap LiveIds
           /\ ~store[m].is_taken
           /\ m \notin d.fetched \ (d.pending \cup d.failures)
           /\ missedAt[m] = <<>>
        THEN <<clock>>
        ELSE missedAt[m]]

\* STEP 4, one callback of the map up to its first await: without a profile it
\* returns 'skipped'; with one it enters updateMedicationStats, which reads the
\* instant of the stamp, now = new Date(), and sends the fetch of the batch's rows.
DispatchStart(d, now) ==
    IF d.profile = "missing" THEN NoProfile(d)
    ELSE [d EXCEPT !.pc = "fetch", !.now = now]

\* STEP 3, one lookup of the loop: getUserById is answered for the next user of
\* userIds (no user, an error or no phone: no profile).  After the last answer
\* nothing is awaited before the map of STEP 4 has started every callback, so
\* all the stamps of an invocation are read at that one instant.
FetchProfile(r, F) ==
    /\ run[r].pc = "profiles"
    /\ \E found \in BOOLEAN :
        LET u      == Head(run[r].userIds)
            rest   == Tail(run[r].userIds)
            looked == [disp[r] EXCEPT ![u].profile = IF found THEN "found" ELSE "missing"]
        IN /\ found \/ faults < F
           /\ faults' = IF found THEN faults ELSE faults + 1
           /\ IF rest # <<>>
              THEN /\ run' = [run EXCEPT ![r].userIds = rest]
                   /\ disp' = [disp EXCEPT ![r] = looked]
                   /\ UNCHANGED missedAt
              ELSE /\ run' = [run EXCEPT ![r].pc = "dispatch", ![r].userIds = rest]
                   /\ disp' = [disp EXCEPT ![r] =
                        [v \in Users |-> IF looked[v].pc = "start"
                                         THEN DispatchStart(looked[v], clock)
                                         ELSE looked[v]]]
                   /\ missedAt' = [m \in MedIds |->
                        RecordMiss(disp'[r][store[m].user_id],
                                   MedicationIds(r, store[m].user_id))[m]]
    /\ UNCHANGED <<clock, ticks, ran, store, calls, ext>>

\* Step 1 of updateMedicationStats is answered: the fetch of the current rows
\* .in('id', medicationIds).  A fetch error or no row at all is a failed update;
\* otherwise one update per fetched row is sent, with the retry_count just read.
FetchCurrentMeds(r, u, F) ==
    /\ run[r].pc = "dispatch"
    /\ disp[r][u].pc = "fetch"
    /\ \/ /\ faults < F
          /\ faults' = faults + 1
          /\ disp' = [disp EXCEPT ![r][u] = AfterUpdate(@, FALSE)]
       \/ /\ UNCHANGED faults
          /\ LET currentMeds == MedicationIds(r, u) \cap LiveIds
                 missing     == MedicationIds(r, u) \ LiveIds
             IN disp' = [disp EXCEPT ![r][u] =
                    IF currentMeds = {}
                    THEN AfterUpdate([@ EXCEPT !.missing = missing], FALSE)
                    ELSE [@ EXCEPT !.pc = "update",
                                   !.fetched = currentMeds,
                                   !.missing = missing,
                                   !.oldRetryCount =
                                       [m \in MedIds |-> IF m \in currentMeds
                                                         THEN store[m].retry_count ELSE 0],
                                   !.pending = currentMeds]]
    /\ missedAt' = RecordMiss(disp'[r][u], MedicationIds(r, u))
    /\ UNCHANGED <<clock, ticks, ran, store, run, calls, ext>>

\* A stamp that records the time of the attempt and forgets the strike.
StampRowNoIncrement(row, now, newRetryCount) ==
    IF row.st = "live" THEN [row EXCEPT !.last_called_at = <<now>>] ELSE row

\* A stamp that records the strike and forgets the time of the attempt.
StampRowNoTimestamp(row, now, newRetryCount) ==
    IF row.st = "live" THEN [row EXCEPT !.retry_count = newRetryCount] ELSE row

\* .update({last_called_at: now, retry_count: newRetryCount}).eq('id', med.id)
\* on the table; a row deleted since the fetch matches nothing and is no error.
StampRow(row, now, newRetryCount) ==
    IF row.st = "live"
    THEN [row EXCEPT !.last_called_at = <<now>>, !.retry_count = newRetryCount]
    ELSE row

\* The result the function's documentation describes: true if any update succeeded.
UpdateSuccessAny(fetched, failures) == fetched \ failures # {}

\* What updateMedicationStats returns once every update promise has resolved:
\* true only if no update of a fetched row failed.
UpdateSuccess(fetched, failures) == failures = {}

\* History: the dispatch d of the batch ids has gone on to triggerMakeCall, which
\* sends the request for the batch to make-call at once.
Invoked(d, ids) ==
    [m \in MedIds |-> IF d.pc = "call" /\ m \in ids THEN Append(calls[m], clock)
                      ELSE calls[m]]

\* Step 2 of updateMedicationStats, one update promise: the update succeeds or
\* returns an error.  With the last one Promise.all resolves and the function
\* returns; if it returns true the dispatch calls triggerMakeCall, which sends the
\* request to make-call before anything else is awaited.
UpdateMed(r, u, m, F) ==
    /\ disp[r][u].pc = "update"
    /\ m \in disp[r][u].pending
    /\ \E ok \in BOOLEAN :
        LET d        == disp[r][u]
            pending  == d.pending \ {m}
            failures == IF ok THEN d.failures ELSE d.failures \cup {m}
            d1       == [d EXCEPT !.pending = pending, !.failures = failures]
        IN /\ ok \/ faults < F
           /\ faults' = IF ok THEN faults ELSE faults + 1
           /\ store' = IF ok
                       THEN [store EXCEPT ![m] = StampRow(@, d.now, d.oldRetryCount[m] + 1)]
                       ELSE store
           /\ disp' = [disp EXCEPT ![r][u] =
                IF pending # {} THEN d1
                ELSE AfterUpdate(d1, UpdateSuccess(d.fetched, failures))]
    /\ calls' = IF disp[r][u].pending = {m}
                THEN Invoked(disp'[r][u], MedicationIds(r, u))
                ELSE calls
    /\ missedAt' = RecordMiss(disp'[r][u], MedicationIds(r, u))
    /\ UNCHANGED <<clock, ticks, ran, run, ext>>

\* The names the app gives to medications; none holds a character that escapeXML
\* replaces, so the escaped names are the names.
Names == <<"Panadol", "Insulin", "Aspirin", "Vitamin D">>

MedName(m) == Names[((m - 1) % Len(Names)) + 1]

\* make-call: medications.map(m => m.name), in the order of the batch.
MedicationNames(r, u) ==
    [i \in 1 .. Len(run[r].userBatches[u]) |-> MedName(run[r].userBatches[u][i])]

\* Array.prototype.join: the items with the separator between neighbours, as the
\* sequence of the pieces of the resulting string.
RECURSIVE Join(_, _)
Join(items, sep) ==
    IF Len(items) = 0 THEN <<>>
    ELSE IF Len(items) = 1 THEN items
    ELSE <<items[1], sep>> \o Join(Tail(items), sep)

\* A spoken list that joins the last item with a plain " and ".
createSpokenListNoOxford(items) ==
    IF Len(items) = 0 THEN <<"your medications">>
    ELSE IF Len(items) = 1 THEN <<items[1]>>
    ELSE Join(SubSeq(items, 1, Len(items) - 1), ", ")
             \o <<" and ", items[Len(items)]>>

\* createSpokenList(items) of make-call; the string it returns is the
\* concatenation of the pieces.
createSpokenList(items) ==
    IF Len(items) = 0 THEN <<"your medications">>
    ELSE IF Len(items) = 1 THEN <<items[1]>>
    ELSE IF Len(items) = 2 THEN <<items[1], " and ", items[2]>>
    ELSE LET lastItem   == items[Len(items)]
             otherItems == SubSeq(items, 1, Len(items) - 1)
         IN Join(otherItems, ", ") \o <<", and ", lastItem>>

\* A request body of make-call, by what the spoken list depends on: the names of
\* its medications (none when the field is absent or empty) and the
\* medicationName of the legacy format (NULL when the field is absent).
CallRequestBody(medications, medicationName) ==
    [medications |-> medications, medicationName |-> medicationName]

\* The body triggerMakeCall sends: the batch, without the legacy fields.
BatchBody(medications) == CallRequestBody(medications, NULL)

\* normalizeToBatch, by the names of the items: the medications of the request
\* if it has any, otherwise the one item of the legacy format, named
\* body.medicationName || 'your medication' (an absent and an empty name are falsy).
normalizeToBatch(body) ==
    IF Len(body.medications) > 0 THEN body.medications
    ELSE IF body.medicationName # NULL /\ body.medicationName # <<"">>
         THEN body.medicationName
         ELSE <<"your medication">>

\* handleInitialCall of make-call for a request body: the spoken list is made
\* from the names of the normalized batch, in their order.
MakeCall(r, u, body) ==
    /\ disp' = [disp EXCEPT ![r][u].names = normalizeToBatch(body),
                            ![r][u].spoken = createSpokenList(normalizeToBatch(body))]
    /\ UNCHANGED <<clock, ticks, ran, store, run, calls, missedAt, faults, ext>>

\* A dispatch that reports every call it made as triggered.
CallOutcomeIgnored(success) == "triggered"

\* if (callResult.success) status 'triggered' else status 'error'; a thrown request
\* is caught with status 'error' as well.
CallOutcome(success) == IF success THEN "triggered" ELSE "error"

\* The dispatch once make-call has created the call for the request body.
CallPlaced(d, body) ==
    [d EXCEPT !.names = normalizeToBatch(body),
              !.spoken = createSpokenList(normalizeToBatch(body))]

\* The request triggerMakeCall sent is answered.  The call was created and
\* make-call answers with its SID; or no call was created (make-call answers with
\* an error, or the request throws before it is handled); or the call was created
\* and the answer is lost on its way back, so that the request throws.
TriggerMakeCall(r, u, F) ==
    /\ disp[r][u].pc = "call"
    /\ \/ /\ UNCHANGED faults
          /\ disp' = [disp EXCEPT ![r][u] =
                [CallPlaced(Settled(@, CallOutcome(TRUE)), BatchBody(MedicationNames(r, u)))
                    EXCEPT !.called = TRUE]]
       \/ /\ faults < F
          /\ faults' = faults + 1
          /\ \/ disp' = [disp EXCEPT ![r][u] =
                    [Settled(@, CallOutcome(FALSE)) EXCEPT !.called = TRUE]]
             \/ disp' = [disp EXCEPT ![r][u] =
                    [CallPlaced(Settled(@, CallOutcome(FALSE)),
                                BatchBody(MedicationNames(r, u)))
                        EXCEPT !.called = TRUE]]
    /\ UNCHANGED <<clock, ticks, ran, store, run, calls, missedAt, ext>>

\* Details that lose the dispatches that ended in an error.
DetailsWithoutErrors(r) ==
    {<<u, Len(run[r].userBatches[u]), disp[r][u].status>> :
        u \in {v \in BatchUsers(run[r].userBatches) : disp[r][v].status # "error"}}

\* Promise.allSettled, then the report.
Details(r) ==
    {<<u, Len(run[r].userBatches[u]), disp[r][u].status>> :
        u \in BatchUsers(run[r].userBatches)}

RECURSIVE SumCounts(_)
SumCounts(S) ==
    IF S = {} THEN 0
    ELSE LET d == CHOOSE x \in S : TRUE IN d[2] + SumCounts(S \ {d})

\* A report that is a success only without any error.
ReportStrict(details) ==
    LET triggered == {d \in details : d[3] = "triggered"}
        errors    == {d[1] : d \in {x \in details : x[3] = "error"}}
    IN [success |-> errors = {},
        batches_triggered |-> Cardinality(triggered),
        total_meds |-> SumCounts(triggered),
        errors |-> errors,
        details |-> details]

Report(details) ==
    LET triggered == {d \in details : d[3] = "triggered"}
        errors    == {d[1] : d \in {x \in details : x[3] = "error"}}
    IN [success |-> IF errors # {} THEN Cardinality(triggered) > 0 ELSE TRUE,
        batches_triggered |-> Cardinality(triggered),
        total_meds |-> SumCounts(triggered),
        errors |-> errors,
        details |-> details]

Aggregate(r) ==
    /\ run[r].pc = "dispatch"
    /\ \A u \in BatchUsers(run[r].userBatches) : disp[r][u].pc = "done"
    /\ run' = [run EXCEPT ![r] = IdleRun(<<Report(Details(r))>>)]
    /\ disp' = [disp EXCEPT ![r] = NoDisps]
    /\ UNCHANGED <<clock, ticks, ran, store, calls, missedAt, faults, ext>>

\* ------------------------------------------------------------ the clock
\* How late after the start of its minute an instant is read: new Date() has
\* millisecond resolution and the cron trigger is not exact.
JitterMs == 800

Jitters == {0, JitterMs}

\* Instants read exactly at the start of their minute.
OnTheMinute == {0}

\* The next minute begins; the clock is next read somewhere in it, J ms after
\* its start.
Tick(T, J) ==
    /\ ticks < T
    /\ ticks' = ticks + 1
    /\ \E j \in J : clock' = ((clock \div MinuteMs) + 1) * MinuteMs + j
    /\ ran' = FALSE
    /\ UNCHANGED <<store, run, disp, calls, missedAt>>

\* How long a request waits for answers between two readings of the clock.
AwaitMs == 300

\* How late in its minute the clock is still moved by a wait.
MaxLateMs == 300

\* Time passes within the minute while an invocation waits for an answer: the
\* instant of the stamp (updateMedicationStats) is later than the invocation's now.
Elapse(L) ==
    /\ \E r \in Runs : run[r].pc # "idle"
    /\ (clock % MinuteMs) + AwaitMs <= L
    /\ clock' = clock + AwaitMs
    /\ UNCHANGED <<ticks, ran, store, run, disp, calls, missedAt>>

\* ------------------------------------------- the medications repository
\* updateMedicationTaken(id, isTaken): the app's toggle of one row.
UpdateMedicationTaken(m, isTaken, E) ==
    /\ ext < E
    /\ Live(m)
    /\ store[m].is_taken # isTaken
    /\ store' = [store EXCEPT ![m].is_taken = isTaken]
    /\ ext' = ext + 1
    /\ UNCHANGED <<clock, ticks, ran, run, disp, calls, missedAt, faults>>

\* insertMedications(userId, draft): one row per chosen time; the columns the
\* insert does not name take the table's defaults.
InsertMedications(u, times, E) ==
    /\ ext < E
    /\ times # <<>>
    /\ LET free == {m \in MedIds : store[m].st = "absent"}
           ids  == OrderByFree(free, Len(times))
       IN /\ Len(times) <= Cardinality(free)
          /\ store' = [m \in MedIds |->
                IF \E i \in 1 .. Len(times) : ids[i] = m
                THEN NewRow(u, times[CHOOSE i \in 1 .. Len(times) : ids[i] = m])
                ELSE store[m]]
    /\ ext' = ext + 1
    /\ UNCHANGED <<clock, ticks, ran, run, disp, calls, missedAt, faults>>

\* deleteMedication(id)
DeleteMedication(m, E) ==
    /\ ext < E
    /\ Live(m)
    /\ store' = [store EXCEPT ![m].st = "deleted"]
    /\ ext' = ext + 1
    /\ UNCHANGED <<clock, ticks, ran, run, disp, calls, missedAt, faults>>

\* ------------------------------------------------------------- make-call
\* handleIVRResponse when the callee confirms (presses 1 or says yes):
\* updateMedicationStatusBatch(medicationIds) marks every medication the
\* webhook's URL names as taken in one statement,
\* .update({is_taken: true}).in('id', ids).  A confirmation that changes no row
\* is not counted.
UpdateMedicationStatusBatch(ids, E) ==
    /\ ext < E
    /\ \E m \in ids : Live(m) /\ ~store[m].is_taken
    /\ store' = [m \in MedIds |->
            IF m \in ids /\ Live(m) THEN [store[m] EXCEPT !.is_taken = TRUE]
            ELSE store[m]]
    /\ ext' = ext + 1
    /\ UNCHANGED <<clock, ticks, ran, run, disp, calls, missedAt, faults>>

\* ---------------------------------------------------------------- Init
StartClock == StartMinute * MinuteMs

\* What earlier runs can have left in a row: never called, or called once, the
\* call stamped one minute more than the cooldown before the start.
Histories ==
    { [last_called_at |-> NULL, retry_count |-> 0],
      [last_called_at |-> <<StartClock - (SNOOZE_COOLDOWN_MINUTES + 1) * MinuteMs>>,
       retry_count |-> 1] }

InitRows(users) ==
    { [st |-> "live", user_id |-> u, time |-> TimeOfDay(off), is_taken |-> FALSE,
       last_called_at |-> h.last_called_at, retry_count |-> h.retry_count] :
        u \in users, off \in TimeOffsets, h \in Histories }

\* The calls a row's history stands for.
InitCalls(row) == IF row.last_called_at = NULL THEN <<>> ELSE row.last_called_at

InitStores(users) ==
    { s \in [MedIds -> InitRows(users) \cup {AbsentRow}] :
        /\ \A m \in MedIds : (s[m] # AbsentRow) <=> (m <= InitMeds)
        /\ s[1].user_id = "u1" }

Init(users) ==
    /\ clock = StartClock
    /\ ticks = 0
    /\ ran = FALSE
    /\ store \in InitStores(users)
    /\ run = [r \in Runs |-> IdleRun(NoResult)]
    /\ disp = [r \in Runs |-> NoDisps]
    /\ calls = [m \in MedIds |-> InitCalls(store[m])]
    /\ missedAt = [m \in MedIds |-> <<>>]
    /\ faults = 0
    /\ ext = 0

\* ------------------------------------------------------ specifications
\* An invocation after its start: every answer it waits for, in the code's order.
Scheduler(r, F) ==
    \/ AnchorNew(r, F)
    \/ AnchorRetry(r, F)
    \/ SweepFuture(r, F)
    \/ Sweep(r, F)
    \/ FetchProfile(r, F)
    \/ \E u \in Users : FetchCurrentMeds(r, u, F)
    \/ \E u \in Users, m \in MedIds : UpdateMed(r, u, m, F)
    \/ \E u \in Users : TriggerMakeCall(r, u, F)
    \/ Aggregate(r)

Repository(users, E) ==
    \/ \E m \in MedIds, isTaken \in BOOLEAN : UpdateMedicationTaken(m, isTaken, E)
    \/ \E u \in users, off \in TimeOffsets : InsertMedications(u, <<TimeOfDay(off)>>, E)
    \/ \E m \in MedIds : DeleteMedication(m, E)

\* The webhook of a call, whoever created it (the scheduler or the app's own
\* request to make-call), with the callee's confirmation.
Confirmation(E) == \E ids \in SUBSET MedIds : UpdateMedicationStatusBatch(ids, E)

\* The cron schedule with invocations that do not overlap: at most one
\* invocation per minute, which returns before the minute ends.
CronRun == ~ran /\ RunStart("r1")

\* The minute ends after its invocation has returned.
CronTick(T, J) ==
    /\ ran
    /\ run["r1"].pc = "idle"
    /\ Tick(T, J)
    /\ UNCHANGED <<faults, ext>>

\* The answers take their time, within the minute.
CronWait(L) ==
    /\ Elapse(L)
    /\ UNCHANGED <<faults, ext>>

\* A collaborator is slow, within the minute.
SlowAnswer(L, F) ==
    /\ faults < F
    /\ faults' = faults + 1
    /\ Elapse(L)
    /\ UNCHANGED ext

\* The trigger does not fire: a minute ends without an invocation.
SkippedTick(T, F) ==
    /\ ~ran
    /\ run["r1"].pc = "idle"
    /\ faults < F
    /\ faults' = faults + 1
    /\ Tick(T, OnTheMinute)
    /\ UNCHANGED ext

\* Non-overlapping runs: the invocations of the cron schedule, each returning
\* within its minute, with failing and slow collaborators, the app's operations
\* and call confirmations in between.  An invocation that is still under way when
\* its minute ends runs beside the invocation of the next minute: SpecOverlap.
Next ==
    \/ CronRun
    \/ Scheduler("r1", MaxFaults)
    \/ Repository(Users, MaxExt)
    \/ Confirmation(MaxExt)
    \/ CronTick(MaxTicks, OnTheMinute)
    \/ SlowAnswer(MaxLateMs, MaxDelays)
    \/ SkippedTick(MaxTicks, MaxDelays)

Spec == Init(Users) /\ [][Next]_vars

\* Time passes while invocations are under way, to the next minute or within the
\* minute; it counts as an operation from outside.
OverlapTick(T, L, E) ==
    /\ ext < E
    /\ ext' = ext + 1
    /\ Tick(T, OnTheMinute) \/ Elapse(L)
    /\ UNCHANGED faults

\* Invocations that overlap (the cron trigger, a manual POST, a retried HTTP call,
\* an invocation still running when the next minute's one starts): nothing
\* serialises them.  No collaborator fails here.
NextOverlap ==
    \/ \E r \in Runs : RunStart(r)
    \/ \E r \in Runs : Scheduler(r, 0)
    \/ Repository({"u1"}, OverlapExt)
    \/ Confirmation(OverlapExt)
    \/ OverlapTick(OverlapTicks, MaxLateMs, OverlapExt)

SpecOverlap == Init({"u1"}) /\ [][NextOverlap]_vars

\* The cron schedule alone: no collaborator fails, no minute ends during an
\* invocation, and the app does nothing.
NextCron ==
    \/ CronRun
    \/ Scheduler("r1", 0)
    \/ CronTick(MaxTicks, Jitters)
    \/ CronWait(MaxLateMs)

SpecCron == Init(Users) /\ [][NextCron]_vars

\* Non-overlapping runs of the cron schedule over more than a day, one user, with
\* a single failure or delay in the whole behaviour and no app-side operation.
NextDay ==
    \/ CronRun
    \/ Scheduler("r1", 1)
    \/ CronTick(DayTicks, OnTheMinute)
    \/ SlowAnswer(MaxLateMs, 1)
    \/ SkippedTick(DayTicks, 1)

SpecDay == Init({"u1"}) /\ [][NextDay]_vars

\* The sweep window crosses midnight: the first run of a behaviour starts at 23:50.
MidnightStart == 23 * 60 + 50

MidnightClock == MidnightStart * MinuteMs

MidnightRows ==
    { [st |-> "live", user_id |-> u,
       time |-> (MidnightStart + off + DayMinutes) % DayMinutes, is_taken |-> FALSE,
       last_called_at |-> h.last_called_at, retry_count |-> h.retry_count] :
        u \in Users, off \in TimeOffsets,
        h \in { [last_called_at |-> NULL, retry_count |-> 0],
                [last_called_at |->
                    <<MidnightClock - (SNOOZE_COOLDOWN_MINUTES + 1) * MinuteMs>>,
                 retry_count |-> 1] } }

InitMidnight ==
    /\ clock = MidnightClock
    /\ ticks = 0
    /\ ran = FALSE
    /\ store \in { s \in [MedIds -> MidnightRows \cup {AbsentRow}] :
                      /\ \A m \in MedIds : (s[m] # AbsentRow) <=> (m <= InitMeds)
                      /\ s[1].user_id = "u1" }
    /\ run = [r \in Runs |-> IdleRun(NoResult)]
    /\ disp = [r \in Runs |-> NoDisps]
    /\ calls = [m \in MedIds |-> InitCalls(store[m])]
    /\ missedAt = [m \in MedIds |-> <<>>]
    /\ faults = 0
    /\ ext = 0

SpecMidnight == InitMidnight /\ [][NextCron]_vars

\* The cron schedule from 23:50 over more than a day; nothing fails, every
\* answer comes at once, the app does nothing.
NextCronDay ==
    \/ CronRun
    \/ Scheduler("r1", 0)
    \/ CronTick(DayTicks, Jitters)

SpecMidnightDay == InitMidnight /\ [][NextCronDay]_vars

\* The names of the medications of the requests make-call is sent: any list of
\* names, none and names that repeat included.
MedicationLists == UNION {[1 .. n -> Range(Names)] : n \in 0 .. MaxNames}

\* The medicationName of a request: absent, empty, or a name.
MedicationNameFields == {NULL, <<"">>} \cup {<<n>> : n \in Range(Names)}

\* The request bodies make-call is sent: the batched format, the legacy format
\* of a single medication, and bodies that carry both or neither.
CallRequestBodies ==
    {CallRequestBody(medications, medicationName) :
        medications \in MedicationLists, medicationName \in MedicationNameFields}

\* The names handleInitialCall speaks, medications.map(m => m.name) of the
\* normalized batch.
NameLists == {normalizeToBatch(body) : body \in CallRequestBodies}

\* The call function alone, asked once.
NextSpoken ==
    \E body \in CallRequestBodies :
        /\ disp["r1"]["u1"].spoken = <<>>
        /\ MakeCall("r1", "u1", body)

SpecSpoken == Init({"u1"}) /\ [][NextSpoken]_vars

\* =============================================================== claims
Dispatches == {<<r, u>> : r \in Runs, u \in Users}

CooldownMs == SNOOZE_COOLDOWN_MINUTES * MinuteMs

\* C1 -- Circuit breaker: within a dispatch the Call Provider is invoked only
\* after updateMedicationStats has returned success in that dispatch; if it
\* returned failure the dispatch ends with status 'error' and the provider is
\* not invoked for that user in that run.
C1_CircuitBreaker ==
    \A x \in Dispatches :
        LET d == disp[x[1]][x[2]]
        IN /\ (d.pc = "call" \/ d.called) => /\ d.updateSuccess = "true"
                                              /\ d.failures = {}
                                              /\ d.pending = {}
           /\ d.updateSuccess = "false" => /\ d.pc = "done"
                                           /\ d.status = "error"
                                           /\ ~d.called

\* In one run, one user's call has been placed after a successful commit while
\* another user's commit failed on an update and tripped the breaker.
C1_Witness ==
    \E r \in Runs : \E u1, u2 \in Users :
        /\ disp[r][u1].called /\ disp[r][u1].updateSuccess = "true"
        /\ disp[r][u2].updateSuccess = "false" /\ disp[r][u2].failures # {}
        /\ disp[r][u2].status = "error"

\* C2 -- 2-Strike Rule: over non-overlapping runs the Call Provider is invoked at
\* most MAX_RETRY_COUNT times with a batch that contains a given medication.
C2_TwoStrikes == \A m \in MedIds : Len(calls[m]) <= MAX_RETRY_COUNT

\* A pending medication has had its two calls and the cooldown of the second
\* one has expired since, for the anchor query and for the sweep.
C2_Witness ==
    \E m \in LiveIds :
        /\ Len(calls[m]) = MAX_RETRY_COUNT
        /\ ~store[m].is_taken
        /\ store[m].retry_count = MAX_RETRY_COUNT
        /\ clock - calls[m][MAX_RETRY_COUNT] > CooldownMs + MinuteMs

\* C3 -- Snooze cooldown, as claimed: any two successive call attempts of
\* non-overlapping runs whose batches contain the same medication are at least
\* SNOOZE_COOLDOWN_MINUTES apart.
C3_Claim_CooldownBetweenCalls ==
    \A m \in MedIds : \A i \in 1 .. Len(calls[m]) - 1 :
        calls[m][i + 1] - calls[m][i] >= CooldownMs

\* C4 -- as claimed: every medication has retry_count <= MAX_RETRY_COUNT in every
\* reachable state, overlapping runs included.
C4_Claim_RetryCountBounded ==
    \A m \in LiveIds : store[m].retry_count <= MAX_RETRY_COUNT

\* C5 -- as claimed: two overlapping runs that both selected the same medication
\* do not both invoke the Call Provider with a batch containing it.
C5_Claim_NoDuplicateCall ==
    \A u \in Users : \A m \in MedIds :
        ~ /\ m \in MedicationIds("r1", u) /\ disp["r1"][u].called
          /\ m \in MedicationIds("r2", u) /\ disp["r2"][u].called

\* The Call Provider has been invoked with m since the dispatch that missed it.
Healed(m) == \E i \in 1 .. Len(calls[m]) : calls[m][i] > missedAt[m][1]

\* C6 -- Self-healing: a dispatch ended without a call and left a pending
\* medication unstamped; with the scheduler invoked once per minute and no
\* further failure a later run places a call whose batch includes it.  A day of
\* runs after the failed dispatch, the call has been placed.
C6_SelfHealing ==
    \A m \in MedIds :
        /\ missedAt[m] # <<>>
        /\ clock - missedAt[m][1] >= DayMinutes * MinuteMs
        /\ ran /\ run["r1"].pc = "idle"
        => Healed(m)

\* A never-called medication whose first call was lost at its scheduled minute
\* is called at that minute of the next day, and not before.
C6_Witness ==
    \E m \in LiveIds :
        /\ missedAt[m] # <<>>
        /\ HHMM(missedAt[m][1]) = store[m].time
        /\ Len(calls[m]) = 1
        /\ calls[m][1] - missedAt[m][1] = DayMinutes * MinuteMs

\* C7 -- as claimed: updateMedicationStats returns failure and updates no row
\* whenever one of the ids passed to it had no row when it fetched them.
C7_Claim_MissingRowFails ==
    \A x \in Dispatches :
        LET d == disp[x[1]][x[2]]
        IN d.missing # {} => /\ d.updateSuccess # "true"
                             /\ d.fetched = {}

\* C8 -- updateMedicationStats returns success only if the update of every
\* fetched row succeeded, and failure as soon as one update failed; the updates
\* that succeeded stay in the store (retry_count incremented, last_called_at set).
C8_AllOrNothingReport ==
    \A u \in Users :
        LET d == disp["r1"][u]
        IN /\ d.updateSuccess = "true" => d.failures = {} /\ d.pending = {}
           /\ (d.pending = {} /\ d.failures # {}) => d.updateSuccess = "false"
           /\ \A m \in (d.fetched \ (d.pending \cup d.failures)) \cap LiveIds :
                /\ store[m].last_called_at = <<d.now>>
                /\ store[m].retry_count = d.oldRetryCount[m] + 1

\* The commit of a batch of two has returned failure: one update failed, the
\* other one is in the store.
C8_Witness ==
    \E u \in Users : \E m1, m2 \in LiveIds :
        LET d == disp["r1"][u]
        IN /\ d.updateSuccess = "false"
           /\ m1 \in d.failures
           /\ m2 \in d.fetched \ d.failures
           /\ store[m2].last_called_at = <<d.now>>
           /\ store[m2].retry_count = d.oldRetryCount[m2] + 1

\* C9 -- Strike accounting, as claimed: after any sequence of non-overlapping
\* runs the retry_count of every medication equals the number of Call Provider
\* invocations whose batch contained it.
C9_Claim_StrikesEqualCalls ==
    run["r1"].pc = "idle" =>
        \A m \in LiveIds : store[m].retry_count = Len(calls[m])

\* C10 -- each medication has last_called_at = null iff retry_count = 0, under any
\* interleaving of scheduler runs, take/untake actions and inserts.
C10_NullIffZero ==
    \A m \in LiveIds : (store[m].last_called_at = NULL) <=> (store[m].retry_count = 0)

\* An inserted row is still unstamped and another row has been stamped by the
\* commits of two overlapping runs.
C10_Witness ==
    \E m1, m2 \in LiveIds :
        /\ m1 > InitMeds /\ store[m1].retry_count = 0 /\ store[m1].last_called_at = NULL
        /\ store[m2].retry_count > MAX_RETRY_COUNT /\ store[m2].last_called_at # NULL

\* This step is the answer to CONDITION 1 of invocation r.
NewMedsRead(r) == run[r].pc = "new" /\ run'[r].pc = "anchor"

\* This step is the answer to CONDITION 2 of invocation r: findAnchorMedications
\* returns its anchors.
AnchorsRead(r) == run[r].pc = "anchor" /\ run'[r].pc # "anchor" /\ faults' = faults

\* This step is the answer to QUERY 1 of invocation r.
FutureRead(r) == run[r].pc = "sweep" /\ run'[r].pc = "retry" /\ faults' = faults

\* This step is the answer to QUERY 2 of invocation r: sweepUserMedications
\* returns its batches.
SweepReturns(r) == run[r].pc = "retry" /\ run'[r].pc # "retry"

\* The sweep of invocation r has returned and no profile lookup has been
\* answered yet.
FreshSweep(r) ==
    /\ run[r].pc = "profiles"
    /\ \A u \in Users : disp[r][u].profile = "none"

\* The scheduled time lies in the sweep window of invocation r (no midnight crossing).
InSweepWindow(m, r) ==
    /\ store[m].time >= HHMM(run[r].now - ANCHOR_WINDOW_MINUTES * MinuteMs)
    /\ store[m].time <= HHMM(run[r].now + SWEEP_WINDOW_MINUTES * MinuteMs)

\* C11 -- as claimed: a medication stamped less than SNOOZE_COOLDOWN_MINUTES
\* before a run starts is neither an anchor of that run nor part of its sweep
\* result.
C11_Claim_CooldownExcludes ==
    \A r \in Runs :
        /\ run[r].pc = "sweep" =>
              \A m \in run[r].anchorMeds :
                  \/ store[m].last_called_at = NULL
                  \/ run[r].now - store[m].last_called_at[1] >= CooldownMs
        /\ FreshSweep(r) =>
              \A u \in Users : \A m \in MedicationIds(r, u) :
                  \/ store[m].last_called_at = NULL
                  \/ run[r].now - store[m].last_called_at[1] >= CooldownMs

\* C12 -- no medication whose is_taken is true at query time appears in the
\* anchor set or in a user's sweep batch, whatever its time, retry_count and
\* last_called_at.
C12_TakenExcluded ==
    [][\A r \in Runs :
          /\ NewMedsRead(r) =>
                \A m \in run'[r].newMeds : Live(m) /\ ~store[m].is_taken
          /\ AnchorsRead(r) =>
                \A m \in run'[r].anchorMeds \ run[r].newMeds :
                    Live(m) /\ ~store[m].is_taken
          /\ FutureRead(r) =>
                \A m \in Range(run'[r].futureMeds) : Live(m) /\ ~store[m].is_taken
          /\ SweepReturns(r) =>
                \A u \in Users :
                    \A m \in Range(run'[r].userBatches[u]) \ Range(run[r].futureMeds) :
                        Live(m) /\ ~store[m].is_taken]_vars

\* A taken row of an anchor user, inside the sweep window and under the retry
\* limit, is missing from the batch the sweep has just returned for that user.
C12_Witness ==
    \E m \in LiveIds :
        /\ FreshSweep("r1")
        /\ store[m].is_taken
        /\ store[m].retry_count < MAX_RETRY_COUNT
        /\ InSweepWindow(m, "r1")
        /\ store[m].user_id \in run["r1"].anchorUserIds
        /\ run["r1"].userBatches[store[m].user_id] # <<>>
        /\ m \notin MedicationIds("r1", store[m].user_id)

\* C13 -- the users of the batches returned by sweepUserMedications are a subset
\* of the anchorUserIds passed to it.
C13_SweepWithinAnchors ==
    \A r \in Runs : BatchUsers(run[r].userBatches) \subseteq run[r].anchorUserIds

\* Before any app-side operation, a user without an anchor has a pending row
\* inside the sweep window and no batch, while another user has one.
C13_Witness ==
    \E m \in LiveIds :
        /\ FreshSweep("r1")
        /\ ext = 0
        /\ ~store[m].is_taken
        /\ store[m].retry_count < MAX_RETRY_COUNT
        /\ InSweepWindow(m, "r1")
        /\ store[m].user_id \notin run["r1"].anchorUserIds
        /\ run["r1"].userBatches[store[m].user_id] = <<>>

\* A pending row called once, its stamp exactly the cooldown before the instant now.
AtCooldownBoundary(m, now) ==
    /\ Live(m)
    /\ ~store[m].is_taken
    /\ store[m].retry_count = MAX_RETRY_COUNT - 1
    /\ store[m].last_called_at # NULL
    /\ now - store[m].last_called_at[1] = CooldownMs

\* C14 -- as claimed, the cooldown boundary is inclusive: a pending medication
\* with retry_count = 1 stamped exactly SNOOZE_COOLDOWN_MINUTES before the run's
\* now is selected as a retry anchor, and one stamped later than that is not.
C14_Claim_InclusiveBoundary ==
    [][AnchorsRead("r1") =>
          \A m \in LiveIds :
              /\ AtCooldownBoundary(m, run["r1"].now) =>
                    run'["r1"].pc = "sweep" /\ m \in run'["r1"].anchorMeds
              /\ ( /\ store[m].last_called_at # NULL
                   /\ run["r1"].now - store[m].last_called_at[1] < CooldownMs )
                 => m \notin run'["r1"].anchorMeds]_vars

\* A query of the cron invocation (an anchor query or a sweep query) returns an
\* error in this step.
StoreFails ==
    /\ faults' > faults
    /\ clock' = clock
    /\ run["r1"].pc \in {"new", "anchor", "sweep", "retry"}

\* C15 -- as claimed: a failure of the Medication Store during a run (an anchor
\* or sweep query returning an error) makes the invocation end as a run-level
\* failure, never as a report with success = true.
C15_Claim_StoreFailureFails ==
    [][StoreFails =>
          /\ run'["r1"].pc = "idle"
          /\ run'["r1"].result # NoResult
          /\ ~run'["r1"].result[1].success]_vars

\* C16 -- when the identity lookup fails or returns no phone for a batch's user,
\* the user's outcome is 'skipped', updateMedicationStats and the Call Provider
\* are not called, and retry_count and last_called_at of the user's medications
\* are unchanged by the run.
C16_SkippedUntouched ==
    [][\A u \in Users :
          disp'["r1"][u].profile = "missing" =>
              /\ run'["r1"].pc # "profiles" =>
                    disp'["r1"][u].pc = "done" /\ disp'["r1"][u].status = "skipped"
              /\ ~disp'["r1"][u].called
              /\ disp'["r1"][u].updateSuccess = "none" /\ disp'["r1"][u].fetched = {}
              /\ \A m \in LiveIds :
                    store[m].user_id = u =>
                        /\ store'[m].last_called_at = store[m].last_called_at
                        /\ store'[m].retry_count = store[m].retry_count
                        /\ calls'[m] = calls[m]]_vars

\* One user of the run is skipped for want of a profile, with a never-called row
\* in the batch, while the call of another user of the same run has been placed.
C16_Witness ==
    \E u1, u2 \in Users : \E m \in LiveIds :
        /\ disp["r1"][u1].profile = "missing"
        /\ m \in MedicationIds("r1", u1)
        /\ store[m].retry_count = 0 /\ store[m].last_called_at = NULL
        /\ disp["r1"][u2].called

\* The rows of a dispatch's batch that are still in the table carry its stamp.
StampKept(d, ids, table) ==
    \A m \in ids :
        table[m].st = "live" =>
            /\ table[m].last_called_at = <<d.now>>
            /\ table[m].retry_count = d.oldRetryCount[m] + 1

\* C17 -- when the commit succeeds and the Call Provider then fails, the user's
\* outcome is 'error', the error is listed in the report, and every medication of
\* the batch keeps the incremented retry_count and the new last_called_at.
C17_ProviderFailureKeepsStrike ==
    [][\A u \in Users :
          LET d == disp["r1"][u]
          IN /\ (d.pc = "call" /\ disp'["r1"][u].pc = "done" /\ faults' > faults) =>
                   /\ d.updateSuccess = "true"
                   /\ disp'["r1"][u].status = "error"
                   /\ StampKept(d, MedicationIds("r1", u), store')
             /\ (run["r1"].pc = "dispatch" /\ run'["r1"].pc = "idle"
                     /\ d.called /\ d.status = "error") =>
                   /\ u \in run'["r1"].result[1].errors
                   /\ <<u, Len(run["r1"].userBatches[u]), "error">>
                          \in run'["r1"].result[1].details
                   /\ StampKept(d, MedicationIds("r1", u), store')]_vars

\* The run has returned a report that lists a user's error, and a row of that
\* user carries the stamp and the call of this run's minute.
C17_Witness ==
    \E m \in LiveIds :
        /\ run["r1"].pc = "idle" /\ ran
        /\ run["r1"].result # NoResult
        /\ store[m].user_id \in run["r1"].result[1].errors
        /\ store[m].last_called_at = <<clock>>
        /\ Len(calls[m]) >= 1
        /\ calls[m][Len(calls[m])] = clock
        /\ store[m].retry_count = Len(calls[m])

\* C18 -- when the sweep window crosses midnight the future set is computed with
\* time >= start OR time <= end, so a pending medication of an anchor user on
\* either side of midnight with retry_count < 2 is included in that user's batch.
C18_MidnightDisjunction ==
    \A m \in LiveIds :
        LET start == HHMM(run["r1"].now - ANCHOR_WINDOW_MINUTES * MinuteMs)
            end   == HHMM(run["r1"].now + SWEEP_WINDOW_MINUTES * MinuteMs)
        IN (/\ FreshSweep("r1")
            /\ end < start
            /\ ~store[m].is_taken
            /\ store[m].retry_count < MAX_RETRY_COUNT
            /\ store[m].user_id \in run["r1"].anchorUserIds
            /\ (store[m].time >= start \/ store[m].time <= end))
           => m \in MedicationIds("r1", store[m].user_id)

\* The run of 23:50 has swept a batch that holds the medication of 00:10.
C18_Witness ==
    \E m \in LiveIds :
        /\ FreshSweep("r1")
        /\ HHMM(run["r1"].now) = 23 * 60 + 50
        /\ store[m].time = 10
        /\ m \in MedicationIds("r1", store[m].user_id)

\* C19 -- a pending medication with retry_count = MAX_RETRY_COUNT - 1 and expired
\* cooldown (stamped more than SNOOZE_COOLDOWN_MINUTES ago; the boundary instant is
\* C14's subject) is selected as a retry anchor; a medication with retry_count =
\* MAX_RETRY_COUNT is in no anchor set and in no sweep batch of a later run, the
\* run of its own scheduled minute included: no query of a run returns it.
C19_StrikeLimit ==
    [][/\ AnchorsRead("r1") =>
            \A m \in LiveIds :
                (/\ ~store[m].is_taken
                 /\ store[m].retry_count = MAX_RETRY_COUNT - 1
                 /\ store[m].last_called_at # NULL
                 /\ run["r1"].now - store[m].last_called_at[1] > CooldownMs)
                => run'["r1"].pc = "sweep" /\ m \in run'["r1"].anchorMeds
       /\ NewMedsRead("r1") =>
            \A m \in run'["r1"].newMeds : store[m].retry_count < MAX_RETRY_COUNT
       /\ AnchorsRead("r1") =>
            \A m \in run'["r1"].anchorMeds \ run["r1"].newMeds :
                store[m].retry_count < MAX_RETRY_COUNT
       /\ FutureRead("r1") =>
            \A m \in Range(run'["r1"].futureMeds) :
                store[m].retry_count < MAX_RETRY_COUNT
       /\ SweepReturns("r1") =>
            \A u \in Users :
                \A m \in Range(run'["r1"].userBatches[u]) \ Range(run["r1"].futureMeds) :
                    store[m].retry_count < MAX_RETRY_COUNT]_vars

\* A row never called before 08:00 has had its two calls since.  The run of its
\* own scheduled minute has swept a batch for the row's user, and the row,
\* pending, due now and inside the sweep window, is not in it: neither a query of
\* the anchors nor a query of the sweep returned it.
C19_Witness ==
    \E m \in LiveIds :
        /\ FreshSweep("r1")
        /\ Len(calls[m]) = MAX_RETRY_COUNT
        /\ calls[m][1] >= StartClock
        /\ store[m].retry_count = MAX_RETRY_COUNT
        /\ ~store[m].is_taken
        /\ store[m].time = HHMM(run["r1"].now)
        /\ InSweepWindow(m, "r1")
        /\ run["r1"].userBatches[store[m].user_id] # <<>>
        /\ m \notin MedicationIds("r1", store[m].user_id)

\* C20 -- in the report of a run, success is false exactly when
\* batches_triggered = 0 and the errors list is non-empty.
C20_ReportSuccess ==
    \A r \in Runs :
        run[r].result # NoResult =>
            LET report == run[r].result[1]
            IN report.success <=>
                   ~(report.batches_triggered = 0 /\ report.errors # {})

\* A report with one user's error next to another user's triggered batch is a
\* success.
C20_Witness ==
    /\ run["r1"].result # NoResult
    /\ run["r1"].result[1].errors # {}
    /\ run["r1"].result[1].batches_triggered >= 1
    /\ run["r1"].result[1].success

\* C21: an invocation that finds neither a first-call anchor nor a retry anchor
\* ends at once with the all-zero report (success true, 0 batches, 0 medications,
\* no errors, no details) and changes no row, no call and no dispatch; a second
\* invocation at the same instant does the same.
C21_NoAnchorsNoOp ==
    [][\A r \in Runs :
         /\ NewMedsRead(r) => store' = store /\ calls' = calls /\ disp' = disp
         /\ ( /\ run[r].pc = "anchor"
              /\ run'[r] # run[r]
              /\ run[r].newMeds = {}
              /\ RetryAnchors(run[r].now) = {} )
            => /\ run'[r].pc = "idle"
               /\ Len(run'[r].result) = 1
               /\ run'[r].result[1].success = TRUE
               /\ run'[r].result[1].batches_triggered = 0
               /\ run'[r].result[1].total_meds = 0
               /\ run'[r].result[1].errors = {}
               /\ run'[r].result[1].details = {}
               /\ store' = store
               /\ calls' = calls
               /\ disp' = disp
               /\ clock' = clock]_vars

\* Two invocations at the same instant both ended with the all-zero report over a
\* store that holds a pending medication and is as it was at the start.
C21_Witness ==
    /\ \A r \in Runs :
        /\ run[r].pc = "idle"
        /\ run[r].result # NoResult
        /\ run[r].result[1].success = TRUE
        /\ run[r].result[1].batches_triggered = 0
        /\ run[r].result[1].details = {}
    /\ ext = 0
    /\ clock = StartClock
    /\ \E m \in LiveIds : ~store[m].is_taken /\ store[m].retry_count < MAX_RETRY_COUNT
    /\ \A m \in MedIds : calls[m] = InitCalls(store[m])
    /\ NewMeds(clock) = {}
    /\ RetryAnchors(clock) = {}

\* C23: for n >= 1 names createSpokenList returns the names in their order with
\* exactly n-1 separators between them: the single name for n = 1, " and " for
\* n = 2, and for n >= 3 ", " everywhere except before the last name, which is
\* preceded by ", and ".
C23_SpokenList ==
    \A r \in Runs, u \in Users :
        LET items == disp[r][u].names
            s     == disp[r][u].spoken
            n     == Len(items)
        IN n >= 1 =>
            /\ Len(s) = 2 * n - 1
            /\ \A i \in 1 .. n : s[2 * i - 1] = items[i]
            /\ n = 2 => s[2] = " and "
            /\ n >= 3 => /\ \A i \in 1 .. n - 2 : s[2 * i] = ", "
                         /\ s[2 * n - 2] = ", and "

\* A list of four names, one of them twice, was spoken with an Oxford comma.
C23_Witness ==
    /\ Len(disp["r1"]["u1"].names) = MaxNames
    /\ disp["r1"]["u1"].names[1] = disp["r1"]["u1"].names[3]
    /\ Len(disp["r1"]["u1"].spoken) = 2 * MaxNames - 1
    /\ disp["r1"]["u1"].spoken[2 * MaxNames - 2] = ", and "
    /\ disp["r1"]["u1"].spoken[2] = ", "

\* C22: the report of a run has exactly one detail entry per user batch, carrying
\* the outcome of that user's dispatch, and a step of one user's dispatch (a skip,
\* a failed commit, a failed call or a success) leaves every other user's dispatch,
\* rows and calls as they were.
C22_PerUserIsolation ==
    [][\A r \in Runs :
         /\ (run[r].pc = "dispatch" /\ run'[r].pc = "idle")
            => LET details == run'[r].result[1].details
                   users   == BatchUsers(run[r].userBatches)
               IN /\ {d[1] : d \in details} = users
                  /\ Cardinality(details) = Cardinality(users)
                  /\ \A d \in details :
                        /\ d[3] = disp[r][d[1]].status
                        /\ d[3] \in {"triggered", "error", "skipped"}
         /\ \A u \in Users :
              (run[r].pc = "dispatch" /\ disp[r][u].pc # "done" /\ disp'[r][u] # disp[r][u])
              => \A v \in Users \ {u} :
                    /\ disp'[r][v] = disp[r][v]
                    /\ \A m \in MedIds :
                          store[m].user_id = v
                          => store'[m] = store[m] /\ calls'[m] = calls[m]]_vars

\* A run ended with two details: one user's dispatch failed or was skipped, the
\* other user's batch was stamped and called in the same run.
C22_Witness ==
    /\ run["r1"].pc = "idle"
    /\ run["r1"].result # NoResult
    /\ Cardinality(run["r1"].result[1].details) = 2
    /\ \E u \in Users, v \in Users, d \in run["r1"].result[1].details,
         e \in run["r1"].result[1].details :
        /\ u # v
        /\ d[1] = u /\ d[3] \in {"error", "skipped"}
        /\ e[1] = v /\ e[3] = "triggered"
        /\ \E m \in LiveIds :
            /\ store[m].user_id = v
            /\ store[m].last_called_at = <<clock>>
            /\ calls[m] # <<>>
            /\ calls[m][Len(calls[m])] = clock
        /\ \A m \in LiveIds : store[m].user_id = u => store[m].last_called_at # <<clock>>

\* C24: without concurrent app operations, every medication that
\* findAnchorMedications selected as an anchor is in its user's batch of the sweep
\* of the same run, so the sweep never ends without a batch for an anchor user.
C24_Claim_AnchorsInBatch ==
    [][SweepReturns("r1")
       => /\ run'["r1"].pc = "profiles"
          /\ \A m \in run["r1"].anchorMeds :
                m \in Range(run'["r1"].userBatches[store[m].user_id])]_vars

\* C25: under the one-minute schedule, with every collaborator succeeding, a
\* medication that was called once and stays pending is called a second time: at
\* the end of every run no pending row with one strike has waited a whole day
\* since its first call, whatever its time of day, minutes before midnight included.
C25_RetryWithinADay ==
    (ran /\ run["r1"].pc = "idle")
    => \A m \in LiveIds :
          (~store[m].is_taken /\ store[m].retry_count = 1)
          => clock - store[m].last_called_at[1] < DayMinutes * MinuteMs

\* A row scheduled in the last minutes of the day has its second strike, and the
\* two calls are more than 23 hours apart.
C25_Witness ==
    \E m \in LiveIds :
        /\ store[m].time >= MidnightStart
        /\ store[m].retry_count = MAX_RETRY_COUNT
        /\ Len(calls[m]) = 2
        /\ calls[m][1] >= MidnightClock
        /\ calls[m][2] - calls[m][1] > 23 * 60 * MinuteMs

\* C26: a medication that has already been called is part of a later batch only
\* when it is overdue (its time is earlier than the run's current minute) and its
\* cooldown has expired.
C26_Claim_CalledOnlyWhenOverdue ==
    \A r \in Runs :
        FreshSweep(r)
        => \A u \in Users : \A m \in Range(run[r].userBatches[u]) :
              store[m].retry_count >= 1
              => /\ store[m].time < HHMM(run[r].now)
                 /\ store[m].last_called_at # NULL
                 /\ run[r].now - store[m].last_called_at[1] >= CooldownMs

\* C27: the first time of the sweep's future window is the current minute the
\* anchor detector of the same run used: a medication scheduled one minute before
\* the run's current minute is not swept as a future medication.
C27_Claim_FutureFromNow ==
    \A r \in Runs :
        FreshSweep(r)
        => \A u \in Users : \A m \in Range(run[r].userBatches[u]) :
              store[m].last_called_at = NULL
              => \/ store[m].time >= HHMM(run[r].now)
                 \/ /\ CrossesMidnight(HHMM(run[r].now),
                                       HHMM(run[r].now + SWEEP_WINDOW_MINUTES * MinuteMs))
                    /\ store[m].time <= HHMM(run[r].now + SWEEP_WINDOW_MINUTES * MinuteMs)

\* C28: when the Call Provider is invoked with a batch, every medication of the
\* batch is untaken in the store, also when the user marks one as taken between
\* the sweep and the call.
C28_Claim_UntakenAtCall ==
    [][\A r \in Runs, u \in Users :
         (disp[r][u].pc # "call" /\ disp'[r][u].pc = "call")
         => \A m \in MedicationIds(r, u) \cap LiveIds : ~store'[m].is_taken]_vars

\* C29: when two overlapping runs both commit the same medication successfully,
\* its retry_count afterwards is its value before the first fetch plus 2.
C29_Claim_NoLostUpdate ==
    \A u \in Users : \A m \in MedIds :
        ( /\ disp["r1"][u].updateSuccess = "true"
          /\ disp["r2"][u].updateSuccess = "true"
          /\ m \in disp["r1"][u].fetched \cap disp["r2"][u].fetched
          /\ Live(m) )
        => LET old1 == disp["r1"][u].oldRetryCount[m]
               old2 == disp["r2"][u].oldRetryCount[m]
               prev == IF old1 < old2 THEN old1 ELSE old2
           IN store[m].retry_count = prev + 2

\* C30: within every user's batch of the sweep the medications are in ascending
\* order of their scheduled time, also when the batch mixes medications of the
\* future window with overdue retries.
C30_Claim_BatchAscending ==
    \A r \in Runs :
        FreshSweep(r)
        => \A u \in Users :
              LET b == run[r].userBatches[u]
              IN \A i \in 1 .. Len(b) : \A j \in 1 .. Len(b) :
                    i < j => store[b[i]].time <= store[b[j]].time

====
